---- MODULE Spec2Model ----
(***************************************************************************)
(* Model of the connection broker of UnityMcpServer/src/server.py:         *)
(* ConnectionManager (active_connections, unity_connection,                *)
(* pending_requests), the /ws endpoint loop and the HTTP routes that call  *)
(* send_to_unity.  One action per handler step between two suspension      *)
(* points of the asyncio event loop.                                       *)
(***************************************************************************)
EXTENDS Integers, Sequences, FiniteSets, TLC

\* ------------------------------------------------------------------ bounds
NumUnity    == 2      \* connections open at the same time that declared "unity"
NumClients  == 2      \* connections open at the same time that declared another type
NumHttp     == 1      \* concurrent HTTP route invocations
NumAddrs    == 1      \* distinct object addresses id(message) may return
MaxInFlight == 2      \* send_to_unity calls suspended at the same time
MaxLeaked   == 1      \* entries of pending_requests left behind by failed writes

\* a websocket is identified by the slot it occupies while it is open; the
\* slots are split by the client_type their websockets declare
UnityChannels  == 1..NumUnity
ClientChannels == (NumUnity + 1)..(NumUnity + NumClients)
Channels       == UnityChannels \cup ClientChannels
HttpCallers    == (NumUnity + NumClients + 1)..(NumUnity + NumClients + NumHttp)
\* the tasks that call send_to_unity
Callers        == ClientChannels \cup HttpCallers
Addrs       == 1..NumAddrs

\* --------------------------------------------------------- values of fields
NoChannel == 0                      \* unity_connection = None
Stale     == 0                      \* a future that no task awaits any more
NoAddr    == 0
Absent    == "<absent>"             \* key not present in the JSON object
Null      == "<null>"               \* Python None / JSON null

\* first_message.get("client_type", "unknown") of a websocket in slot ch
ClientTypes(ch) == IF ch \in UnityChannels THEN {"unity"} ELSE {"mcp_client"}
SuppliedIds   == {"1"}              \* ids a peer may write in a frame
FunctionNames == {"manage_editor", "", Absent}
\* the fields of a response frame besides its id: with the success flag
\* ({"success": true, "data": "pong"}) or without it ({"message": "pong"})
WithFlag      == "success,data"
NoFlag        == "message"
Payloads      == {WithFlag, NoFlag}

\* str(id(message)): the decimal text of the object's address
GeneratedId(addr) == ToString(addr)

AllIds == SuppliedIds \cup {GeneratedId(a) : a \in Addrs} \cup {Null}

\* frames a client may send after the handshake
ClientMessages == [id : SuppliedIds \cup {Absent, Null}, function : FunctionNames]
\* frames the executor may send after the handshake
UnityMessages  == [id : AllIds, data : Payloads]

\* dict.get(key): None when the key is absent
Get(v) == IF v = Absent THEN Null ELSE v
\* variant: only a missing field counts (`is None` in place of `not`)
Falsy_noneOnly(v) == Get(v) = Null

\* Python truthiness of the "function" field read with .get
Falsy(v) == Get(v) \in {Null, ""}

\* state of a future / outcome of a call
Unset          == [kind |-> "unset",     id |-> "", data |-> ""]
Cancelled      == [kind |-> "cancelled", id |-> "", data |-> ""]
Response(i, d) == [kind |-> "response",  id |-> i,  data |-> d]
\* a failure handed to the caller; i is the id the /ws handler echoes in the
\* frame (message.get("id")), Null for an HTTP caller
Failure(i, e)  == [kind |-> "failure",   id |-> i,  data |-> e]
\* a request frame written to the executor channel
Request(i)     == [kind |-> "request",   id |-> i,  data |-> ""]

NoUnityError == "No Unity connection available"
TimeoutError == "Request to Unity timed out"
MissingFunctionError == "Missing function name"
TransportError == "transport error"
KeyErrorText == "KeyError"
ValidationErrorText == "ValidationError: success field required"

\* the frame or object carries a "success" field
HasSuccess(o) == o.kind = "failure" \/ (o.kind = "response" /\ o.data = WithFlag)

\* FunctionResponse(**response): the model keeps success, message, data and
\* error, ignores the other keys (id), and rejects a response without success
FunctionResponse(r) ==
    IF r.data = WithFlag THEN Response(Null, r.data)
    ELSE Failure(Null, ValidationErrorText)

VARIABLES
    conn,                \* channel -> "closed" | "open"
    client_type,         \* channel -> client_type local of its handler
                         \* ("unknown" before the handshake and after the end)
    active_connections,  \* ConnectionManager.active_connections: a list that
                         \* holds a websocket once; kept as its set of members
    unity_connection,    \* ConnectionManager.unity_connection
    pending_requests,    \* ConnectionManager.pending_requests: id -> the
                         \* caller awaiting the future, or Stale
    future,              \* caller -> state of the future of its call
    pc,                  \* caller -> "idle" | "wait" | "expired"
    reqId,               \* caller -> request_id of its call in progress
    msgAddr,             \* caller -> address of an id-less message in a call
    out,                 \* what the step just taken wrote or returned:
                         \* a list of [to, msg], empty when nothing
    watched              \* history of the requests that carry WatchedId:
                         \* "off" | "unresolved" | "resolved" | "late"

vars == <<conn, client_type, active_connections, unity_connection,
          pending_requests, future, pc, reqId, msgAddr, out, watched>>

managerVars == <<active_connections, unity_connection, pending_requests>>

\* ----------------------------------------------------------------- helpers
\* dict with key k removed / set
DictDel(d, k) == [x \in DOMAIN d \ {k} |-> d[x]]
DictSet(d, k, v) == [x \in DOMAIN d \cup {k} |-> IF x = k THEN v ELSE d[x]]

\* addresses of the message objects of the calls in progress
LiveAddrs == {msgAddr[c] : c \in Callers} \ {NoAddr}

\* message.get("id") as the /ws handler echoes it; an HTTP caller has no id
Echo(c, i) == IF c \in ClientChannels THEN Get(i) ELSE Null

\* the identifier whose history SpecHist records
WatchedId == "1"

\* the state after ConnectionManager() and before any connection
Constructed ==
    /\ conn = [c \in Channels |-> "closed"]
    /\ client_type = [c \in Channels |-> "unknown"]
    /\ active_connections = {}
    /\ unity_connection = NoChannel
    /\ pending_requests = [x \in {} |-> Stale]
    /\ future = [c \in Callers |-> Unset]
    /\ pc = [c \in Callers |-> "idle"]
    /\ reqId = [c \in Callers |-> Null]
    /\ msgAddr = [c \in Callers |-> NoAddr]
    /\ out = <<>>

Init == Constructed /\ watched = "off"

\* a request carrying WatchedId is resolved in this step: its future gets
\* the response, or its call ends after the deadline
ResolvedNow ==
    \E c \in Callers :
        /\ reqId[c] = WatchedId
        /\ \/ future[c] = Unset /\ future'[c].kind = "response"
           \/ pc[c] = "expired" /\ pc'[c] = "idle"

\* history only: read by no action.  lateResponse: the step handles a
\* response that carries WatchedId and finds no entry for it
Track(lateResponse) ==
    watched' = IF watched = "off" THEN "off"
               ELSE IF ResolvedNow THEN "resolved"
               ELSE IF watched = "resolved" /\ lateResponse THEN "late"
               ELSE watched

\* ------------------------------------------------------- ConnectionManager
\* variant: a registered executor is kept when another one connects
connect_keepFirst(ch, ct) ==
    /\ active_connections' = active_connections \cup {ch}
    /\ unity_connection' = IF ct = "unity" /\ unity_connection = NoChannel
                           THEN ch ELSE unity_connection

\* variant: an executor is put in the slot without being appended
connect_slotOnly(ch, ct) ==
    /\ active_connections' = IF ct = "unity" THEN active_connections
                             ELSE active_connections \cup {ch}
    /\ unity_connection' = IF ct = "unity" THEN ch ELSE unity_connection

\* connect(websocket, client_type)
connect(ch, ct) ==
    /\ active_connections' = active_connections \cup {ch}
    /\ unity_connection' = IF ct = "unity" THEN ch ELSE unity_connection

\* variant: the executor slot is left as it is
disconnect_keepSlot(ch) ==
    /\ active_connections' = active_connections \ {ch}
    /\ unity_connection' = unity_connection

\* variant: the executor slot is cleared whoever disconnects
disconnect_clearAlways(ch) ==
    /\ active_connections' = active_connections \ {ch}
    /\ unity_connection' = NoChannel

\* disconnect(websocket)
disconnect(ch) ==
    /\ active_connections' = active_connections \ {ch}
    /\ unity_connection' = IF ch = unity_connection THEN NoChannel
                           ELSE unity_connection

\* request_id = message.get("id", str(id(message)))
RequestId(mid, addr) == IF mid = Absent THEN GeneratedId(addr) ELSE mid

\* self.pending_requests[request_id] = future
PendingAfterSend(pend, rid, waiter) == DictSet(pend, rid, waiter)

\* variant: a matched response empties the map
PendingAfterResponse_clear(pend, rid) ==
    IF rid \in DOMAIN pend THEN [x \in {} |-> Stale] ELSE pend

\* variant: an unknown id is recorded (setdefault in place of the test)
PendingAfterResponse_record(pend, rid) ==
    IF rid \in DOMAIN pend THEN DictDel(pend, rid) ELSE DictSet(pend, rid, Stale)

\* handle_unity_response: the pending map after the response
PendingAfterResponse(pend, rid) ==
    IF rid \in DOMAIN pend THEN DictDel(pend, rid) ELSE pend

\* the callers whose future is recorded in pend and still unset
UnsetWaiters(pend, futs) ==
    {c \in DOMAIN futs : futs[c] = Unset /\ \E i \in DOMAIN pend : pend[i] = c}

\* variant: the response resolves every recorded waiter, whatever its key
FuturesAfterResponse_anyWaiter(pend, futs, m) ==
    IF m.id \in DOMAIN pend
    THEN [c \in DOMAIN futs |->
             IF c \in UnsetWaiters(pend, futs)
             THEN Response(m.id, m.data) ELSE futs[c]]
    ELSE futs

\* variant: a response with an unknown id falls back to the recorded waiters
FuturesAfterResponse_fallback(pend, futs, m) ==
    IF m.id \in DOMAIN pend /\ pend[m.id] # Stale /\ futs[pend[m.id]] = Unset
    THEN [futs EXCEPT ![pend[m.id]] = Response(m.id, m.data)]
    ELSE IF m.id \notin DOMAIN pend
    THEN [c \in DOMAIN futs |->
             IF c \in UnsetWaiters(pend, futs)
             THEN Response(m.id, m.data) ELSE futs[c]]
    ELSE futs

\* handle_unity_response: the futures after the response
FuturesAfterResponse(pend, futs, m) ==
    IF m.id \in DOMAIN pend /\ pend[m.id] # Stale /\ futs[pend[m.id]] = Unset
    THEN [futs EXCEPT ![pend[m.id]] = Response(m.id, m.data)]
    ELSE futs

\* send_to_unity, lines 84-86: the pending map after the except clause
PendingAfterTimeout(pend, rid) == DictDel(pend, rid)

\* what the caller of send_to_unity does with the response r it returns:
\* websocket.send_json(response) on /ws, FunctionResponse(**response) in an
\* HTTP route (whose except clause turns the ValidationError into a failure)
Deliver(c, r) == IF c \in HttpCallers THEN FunctionResponse(r) ELSE r

\* variant: the outcome is also written to another connected client
Finish_broadcast(c, o) ==
    LET others == (active_connections \cap ClientChannels) \ {c} IN
    /\ pc' = [pc EXCEPT ![c] = "idle"]
    /\ out' = IF others = {} THEN <<[to |-> c, msg |-> o]>>
              ELSE <<[to |-> c, msg |-> o],
                     [to |-> CHOOSE x \in others : TRUE, msg |-> o]>>
    /\ reqId' = [reqId EXCEPT ![c] = Null]
    /\ msgAddr' = [msgAddr EXCEPT ![c] = NoAddr]
    /\ future' = [future EXCEPT ![c] = Unset]

\* the call of caller c ends: o is handed to the caller (written to its
\* channel by the /ws handler, returned by the HTTP route)
Finish(c, o) ==
    /\ pc' = [pc EXCEPT ![c] = "idle"]
    /\ out' = <<[to |-> c, msg |-> o]>>
    /\ reqId' = [reqId EXCEPT ![c] = Null]
    /\ msgAddr' = [msgAddr EXCEPT ![c] = NoAddr]
    /\ future' = [future EXCEPT ![c] = Unset]

\* calls suspended in wait_for
InFlight == {c \in Callers : pc[c] # "idle"}

\* entries whose future no task awaits
Leaked == {i \in DOMAIN pending_requests : pending_requests[i] = Stale}

\* ------------------------------------------------------------- the actions
\* websocket_endpoint: accept, first frame, manager.connect
Handshake(ch, ct) ==
    /\ conn[ch] = "closed"
    /\ conn' = [conn EXCEPT ![ch] = "open"]
    /\ client_type' = [client_type EXCEPT ![ch] = ct]
    /\ connect(ch, ct)
    /\ out' = <<>>
    /\ UNCHANGED <<pending_requests, future, pc, reqId, msgAddr>>
    /\ Track(FALSE)

\* websocket_endpoint: receive_json raises WebSocketDisconnect; a handler
\* suspended in send_to_unity is not reading
Disconnect(ch) ==
    /\ conn[ch] = "open"
    /\ ch \in Callers => pc[ch] = "idle"
    /\ conn' = [conn EXCEPT ![ch] = "closed"]
    /\ client_type' = [client_type EXCEPT ![ch] = "unknown"]
    /\ disconnect(ch)
    /\ out' = <<>>
    /\ UNCHANGED <<pending_requests, future, pc, reqId, msgAddr>>
    /\ Track(FALSE)

\* websocket_endpoint, client branch: a frame without a function name
MissingFunction(ch, m) ==
    /\ conn[ch] = "open"
    /\ client_type[ch] # "unity"
    /\ pc[ch] = "idle"
    /\ Falsy(m.function)
    /\ out' = <<[to |-> ch, msg |-> Failure(Get(m.id), MissingFunctionError)]>>
    /\ UNCHANGED <<conn, client_type, managerVars, future, pc, reqId, msgAddr>>
    /\ Track(FALSE)

\* variant: the waiter is recorded before the executor is looked up
SendNoUnity_recordFirst(c, mid) ==
    /\ unity_connection = NoChannel
    /\ pending_requests' = PendingAfterSend(pending_requests, Get(mid), Stale)
    /\ out' = <<[to |-> c, msg |-> Failure(Echo(c, mid), NoUnityError)]>>
    /\ UNCHANGED <<conn, client_type, active_connections, unity_connection,
                   future, pc, reqId, msgAddr>>
    /\ Track(FALSE)

\* send_to_unity, lines 67-68: no executor registered
SendNoUnity(c, mid) ==
    /\ unity_connection = NoChannel
    /\ out' = <<[to |-> c, msg |-> Failure(Echo(c, mid), NoUnityError)]>>
    /\ UNCHANGED <<conn, client_type, managerVars, future, pc, reqId, msgAddr>>
    /\ Track(FALSE)

\* send_to_unity, lines 70-78: record the waiter and write to the executor;
\* sent = FALSE when send_json raises
SendRecorded(c, mid, addr, sent) ==
    LET rid == RequestId(mid, addr) IN
    /\ unity_connection # NoChannel
    /\ IF sent
       THEN /\ Cardinality(InFlight) < MaxInFlight
            /\ pending_requests' = PendingAfterSend(pending_requests, rid, c)
            /\ out' = <<[to |-> unity_connection, msg |-> Request(rid)]>>
            /\ pc' = [pc EXCEPT ![c] = "wait"]
            /\ reqId' = [reqId EXCEPT ![c] = rid]
            /\ msgAddr' = [msgAddr EXCEPT ![c] =
                              IF mid = Absent THEN addr ELSE NoAddr]
       ELSE /\ Cardinality(Leaked \cup {rid}) <= MaxLeaked
            /\ pending_requests' = PendingAfterSend(pending_requests, rid, Stale)
            /\ out' = <<[to |-> c, msg |-> Failure(Echo(c, rid), TransportError)]>>
            /\ UNCHANGED <<pc, reqId, msgAddr>>
    /\ UNCHANGED <<conn, client_type, active_connections, unity_connection,
                   future>>
    /\ Track(FALSE)

\* the addresses the message object of a new call may have; the address is
\* read only when the message has no id
FreeAddrs(mid) == IF mid = Absent THEN Addrs \ LiveAddrs ELSE {NoAddr}

\* send_to_unity as one call: the inputs are the id field of the message
\* and the address of the message object
send_to_unity(c, mid) ==
    \/ SendNoUnity(c, mid)
    \/ \E addr \in FreeAddrs(mid) : \E sent \in BOOLEAN :
           SendRecorded(c, mid, addr, sent)

\* variant: the handler reads the next frame while a call is suspended
ClientRequest_concurrent(ch, m) ==
    /\ conn[ch] = "open"
    /\ client_type[ch] # "unity"
    /\ ~Falsy(m.function)
    /\ send_to_unity(ch, m.id)

\* websocket_endpoint, client branch: a frame with a function name
ClientRequest(ch, m) ==
    /\ conn[ch] = "open"
    /\ client_type[ch] # "unity"
    /\ pc[ch] = "idle"
    /\ ~Falsy(m.function)
    /\ send_to_unity(ch, m.id)

\* an HTTP route: send_to_unity({"function": ..., "params": ...})
HttpRequest(h) ==
    /\ pc[h] = "idle"
    /\ send_to_unity(h, Absent)

\* websocket_endpoint, unity branch: manager.handle_unity_response(message)
HandleUnityResponse(ch, m) ==
    /\ conn[ch] = "open"
    /\ client_type[ch] = "unity"
    /\ pending_requests' = PendingAfterResponse(pending_requests, m.id)
    /\ future' = FuturesAfterResponse(pending_requests, future, m)
    /\ out' = <<>>
    /\ UNCHANGED <<conn, client_type, active_connections, unity_connection,
                   pc, reqId, msgAddr>>
    /\ Track(m.id = WatchedId /\ m.id \notin DOMAIN pending_requests)

\* send_to_unity, lines 82-83: wait_for returns the result of the future
ReturnResponse(c) ==
    /\ pc[c] = "wait"
    /\ future[c].kind = "response"
    /\ Finish(c, Deliver(c, future[c]))
    /\ UNCHANGED <<conn, client_type, managerVars>>
    /\ Track(FALSE)

\* variant: the timer runs only while an executor is registered
DeadlineExpire_whileConnected(c, cancelNow) ==
    /\ pc[c] = "wait"
    /\ future[c] = Unset
    /\ unity_connection # NoChannel
    /\ pc' = [pc EXCEPT ![c] = "expired"]
    /\ future' = IF cancelNow THEN [future EXCEPT ![c] = Cancelled] ELSE future
    /\ out' = <<>>
    /\ UNCHANGED <<conn, client_type, managerVars, reqId, msgAddr>>
    /\ Track(FALSE)

\* the 30 s timer of wait_for fires; the task of the caller is resumed in a
\* later turn of the loop.  cancelNow: the timer cancels the future at once
\* (wait_for built on asyncio.timeout) or only releases the waiter and leaves
\* the cancellation to the resumed task (earlier wait_for)
DeadlineExpire(c, cancelNow) ==
    /\ pc[c] = "wait"
    /\ future[c] = Unset
    /\ pc' = [pc EXCEPT ![c] = "expired"]
    /\ future' = IF cancelNow THEN [future EXCEPT ![c] = Cancelled] ELSE future
    /\ out' = <<>>
    /\ UNCHANGED <<conn, client_type, managerVars, reqId, msgAddr>>
    /\ Track(FALSE)

\* send_to_unity, lines 82-86 after the deadline: the task is resumed
TimeoutResume(c) ==
    /\ pc[c] = "expired"
    /\ IF future[c].kind = "response"
       THEN /\ Finish(c, Deliver(c, future[c]))
            /\ UNCHANGED pending_requests
       ELSE IF reqId[c] \in DOMAIN pending_requests
       THEN /\ pending_requests' = PendingAfterTimeout(pending_requests, reqId[c])
            /\ Finish(c, Failure(Echo(c, reqId[c]), TimeoutError))
       ELSE /\ UNCHANGED pending_requests
            /\ Finish(c, Failure(Echo(c, reqId[c]), KeyErrorText))
    /\ UNCHANGED <<conn, client_type, active_connections, unity_connection>>
    /\ Track(FALSE)

Next ==
    \/ \E ch \in Channels : \E ct \in ClientTypes(ch) : Handshake(ch, ct)
    \/ \E ch \in Channels : Disconnect(ch)
    \/ \E ch \in ClientChannels, m \in ClientMessages : MissingFunction(ch, m)
    \/ \E ch \in ClientChannels, m \in ClientMessages : ClientRequest(ch, m)
    \/ \E h \in HttpCallers : HttpRequest(h)
    \/ \E ch \in UnityChannels, m \in UnityMessages : HandleUnityResponse(ch, m)
    \/ \E c \in Callers : ReturnResponse(c)
    \/ \E c \in Callers, cancelNow \in BOOLEAN : DeadlineExpire(c, cancelNow)
    \/ \E c \in Callers : TimeoutResume(c)

Spec == Init /\ [][Next]_vars

\* the scheduling of the event loop: a task whose future is done or whose
\* wait_for has timed out is resumed, and the timer of a wait_for fires
Fairness ==
    \A c \in Callers :
        /\ WF_vars(ReturnResponse(c))
        /\ WF_vars(\E cancelNow \in BOOLEAN : DeadlineExpire(c, cancelNow))
        /\ WF_vars(TimeoutResume(c))

SpecFair == Init /\ [][Next]_vars /\ Fairness

\* the same program with the history of WatchedId switched on
InitHist == Constructed /\ watched = "unresolved"

SpecHist == InitHist /\ [][Next]_vars

TypeOK ==
    /\ unity_connection \in Channels \cup {NoChannel}
    /\ DOMAIN pending_requests \subseteq AllIds
    /\ \A c \in Callers : pc[c] \in {"idle", "wait", "expired"}

\* an entry of pending_requests that is not stale belongs to a call that is
\* suspended and carries the key as its request_id
PendingOwner ==
    \A i \in DOMAIN pending_requests :
        pending_requests[i] # Stale =>
            /\ pc[pending_requests[i]] # "idle"
            /\ reqId[pending_requests[i]] = i

\* ------------------------------------------------------------------ claims
\* what the step just taken handed to caller c (request frames written to
\* an executor channel are not outcomes)
OutcomesOf(o, c) ==
    SelectSeq(o, LAMBDA e : e.to = c /\ e.msg.kind # "request")

\* the requests the step just taken wrote to executor channels
RequestsIn(o) == SelectSeq(o, LAMBDA e : e.msg.kind = "request")

Awaiting(c) == pc[c] \in {"wait", "expired"}

\* C1: a call of send_to_unity that recorded a waiter hands its caller
\* exactly one outcome: no step hands a caller two, a suspended call ends
\* in the very step that hands its caller one, and that one is a failure or
\* a response carrying the call's own identifier (an HTTP caller is handed
\* a FunctionResponse, which has no id).
C1_ExactlyOneOutcome ==
    [][\A c \in Callers :
          /\ Len(OutcomesOf(out', c)) <= 1
          /\ Awaiting(c) =>
                /\ (pc'[c] = "idle") <=> (Len(OutcomesOf(out', c)) = 1)
                /\ pc'[c] = "idle" =>
                      LET o == OutcomesOf(out', c)[1].msg IN
                      \/ o.kind = "failure"
                      \/ o.kind = "response" /\ o.id = Echo(c, reqId[c])]_vars

\* a caller has just been handed the response to its call
C1_Witness ==
    \E c \in Callers : \E i \in AllIds, d \in Payloads :
        out = <<[to |-> c, msg |-> Response(i, d)]>>

\* C2: no two requests that are both awaiting resolution share a
\* correlation identifier.
C2_UniqueIds ==
    \A c1, c2 \in Callers :
        (c1 # c2 /\ Awaiting(c1) /\ Awaiting(c2)) => reqId[c1] # reqId[c2]

\* channels whose handler takes the executor branch of the /ws loop
ExecutorRole == {ch \in Channels : conn[ch] = "open" /\ client_type[ch] = "unity"}

\* C3: at most one connected channel holds the executor role.
C3_OneExecutor == Cardinality(ExecutorRole) <= 1

\* C4: a frame changes the waiters (is routed to handle_unity_response and
\* resolves or removes an entry) only if it arrived on the channel that is
\* the current executor.
C4_OnlyExecutorResolves ==
    [][\A ch \in UnityChannels, m \in UnityMessages :
          (HandleUnityResponse(ch, m) /\ ch # unity_connection) =>
              UNCHANGED <<pending_requests, future>>]_vars

\* C5: send_to_unity called while no executor is registered fails at once
\* with the no-executor failure, writes no request and leaves
\* pending_requests, active_connections and unity_connection unchanged.
C5_NoExecutor ==
    [][unity_connection = NoChannel =>
          /\ \A ch \in ClientChannels, m \in ClientMessages :
                ClientRequest(ch, m) =>
                    /\ out' = <<[to |-> ch,
                                 msg |-> Failure(Get(m.id), NoUnityError)]>>
                    /\ UNCHANGED <<managerVars, future, pc>>
          /\ \A h \in HttpCallers :
                HttpRequest(h) =>
                    /\ out' = <<[to |-> h, msg |-> Failure(Null, NoUnityError)]>>
                    /\ UNCHANGED <<managerVars, future, pc>>]_vars

\* a caller has just been refused because no executor is registered
C5_Witness ==
    /\ unity_connection = NoChannel
    /\ \E c \in Callers : \E i \in AllIds :
          out = <<[to |-> c, msg |-> Failure(i, NoUnityError)]>>

\* C6: a response of the executor carrying identifier i that arrives while
\* a request with identifier i awaits resolution before its deadline
\* resolves that request with exactly that response and removes the entry
\* for i, and the caller is handed exactly that response.
C6_MatchResolves ==
    [][/\ \A m \in UnityMessages :
            (unity_connection # NoChannel
             /\ HandleUnityResponse(unity_connection, m)) =>
                \A c \in Callers :
                    (pc[c] = "wait" /\ reqId[c] = m.id /\ future[c] = Unset) =>
                        /\ future'[c] = Response(m.id, m.data)
                        /\ m.id \notin DOMAIN pending_requests'
       /\ \A c \in Callers :
            (pc[c] = "wait" /\ pc'[c] = "idle") =>
                out' = <<[to |-> c, msg |-> Deliver(c, future[c])]>>]_vars

\* C7: a call whose deadline expires without a response ends with the
\* "Request to Unity timed out" failure, and its identifier is absent from
\* pending_requests right after.
C7_TimeoutFailure ==
    [][\A c \in Callers :
          (pc[c] = "expired" /\ pc'[c] = "idle") =>
              /\ out' = <<[to |-> c,
                           msg |-> Failure(Echo(c, reqId[c]), TimeoutError)]>>
              /\ reqId[c] \notin DOMAIN pending_requests']_vars

\* C8: a response carrying r2 leaves every request with another identifier
\* as it was: its future, its position, its entry of pending_requests, and
\* nothing is handed to its caller.
C8_Isolation ==
    [][\A ch \in UnityChannels, m \in UnityMessages :
          HandleUnityResponse(ch, m) =>
              /\ \A c \in Callers :
                    (Awaiting(c) /\ reqId[c] # m.id) =>
                        /\ future'[c] = future[c]
                        /\ pc'[c] = pc[c]
                        /\ OutcomesOf(out', c) = <<>>
              /\ \A i \in AllIds \ {m.id} :
                    /\ (i \in DOMAIN pending_requests)
                          <=> (i \in DOMAIN pending_requests')
                    /\ i \in DOMAIN pending_requests =>
                          pending_requests'[i] = pending_requests[i]]_vars

\* two requests with distinct identifiers were pending together; one has
\* been resolved by its response, the other still waits with its entry
C8_Witness ==
    \E c1, c2 \in Callers :
        /\ pc[c1] = "wait" /\ pc[c2] = "wait"
        /\ reqId[c1] # reqId[c2]
        /\ future[c2].kind = "response"
        /\ future[c1] = Unset
        /\ reqId[c1] \in DOMAIN pending_requests
        /\ pending_requests[reqId[c1]] = c1

\* C9: once a request with identifier i has been resolved, by a matching
\* response or by timeout, a response carrying i that arrives afterwards
\* resolves no waiter, so that no caller observes it (i = WatchedId).
C9_LateResponseDiscarded ==
    [][\A ch \in UnityChannels, m \in UnityMessages :
          (/\ HandleUnityResponse(ch, m)
           /\ m.id = WatchedId
           /\ watched \in {"resolved", "late"}) =>
              UNCHANGED future]_vars

\* C9 amended: a response carrying an identifier that has no entry in
\* pending_requests (its request was resolved and no new request with that
\* identifier has been recorded since) is discarded: no waiter is resolved,
\* nothing changes in the broker and no caller is handed anything.
C9_UnmatchedDiscarded ==
    [][\A ch \in UnityChannels, m \in UnityMessages :
          (HandleUnityResponse(ch, m) /\ m.id \notin DOMAIN pending_requests) =>
              /\ UNCHANGED <<managerVars, future, pc, reqId, msgAddr, conn,
                             client_type>>
              /\ out' = <<>>]_vars

\* a request carrying WatchedId was resolved and a later response carrying
\* WatchedId found no entry
C9_Witness == watched = "late"

\* C10: a frame without a function name on a client channel is answered
\* with "Missing function name"; no request is written to the executor and
\* pending_requests is unchanged, with or without an executor.
C10_MissingFunction ==
    [][\A ch \in ClientChannels, m \in ClientMessages :
          (m.function \in {"", Absent}
           /\ (MissingFunction(ch, m) \/ ClientRequest(ch, m))) =>
              /\ out' = <<[to |-> ch,
                           msg |-> Failure(Get(m.id), MissingFunctionError)]>>
              /\ RequestsIn(out') = <<>>
              /\ UNCHANGED <<managerVars, future, pc>>]_vars

\* the rejection has just been written, once with an executor connected
\* and requests pending
C10_Witness ==
    /\ unity_connection # NoChannel
    /\ DOMAIN pending_requests # {}
    /\ \E ch \in ClientChannels : \E i \in AllIds :
          out = <<[to |-> ch, msg |-> Failure(i, MissingFunctionError)]>>

\* C11: every outcome handed to a client channel or an HTTP caller carries
\* a success flag, whatever the outcome: matching response (whatever fields
\* the executor put in it), timeout, no executor, failed write.
C11_WellFormedOutcome ==
    \A k \in 1..Len(out) :
        (out[k].to \in Callers /\ out[k].msg.kind # "request") =>
            HasSuccess(out[k].msg)

\* C12: the outcome of a request submitted on a client channel is written
\* to that channel and to no other: the step that ends the call of ch writes
\* one frame, to ch, and a response in it carries the id of ch's request; a
\* frame submitted on ch and answered at once is answered on ch only; and
\* an outcome reaches ch only in a step of ch's own handler.
C12_OutcomeToOriginator ==
    [][\A ch \in ClientChannels :
          /\ (Awaiting(ch) /\ pc'[ch] = "idle") =>
                /\ Len(out') = 1
                /\ out'[1].to = ch
                /\ out'[1].msg.kind = "response" => out'[1].msg.id = reqId[ch]
          /\ \A m \in ClientMessages :
                ((ClientRequest(ch, m) \/ MissingFunction(ch, m))
                 /\ pc'[ch] = "idle") =>
                    (Len(out') = 1 /\ out'[1].to = ch)
          /\ OutcomesOf(out', ch) # <<>> =>
                \/ Awaiting(ch) /\ pc'[ch] = "idle"
                \/ \E m \in ClientMessages :
                      ClientRequest(ch, m) \/ MissingFunction(ch, m)]_vars

\* a client has just been handed the response to its request while another
\* client channel is connected and has a request pending
C12_Witness ==
    \E c1, c2 \in ClientChannels : \E i \in AllIds, d \in Payloads :
        /\ c1 # c2
        /\ out = <<[to |-> c1, msg |-> Response(i, d)]>>
        /\ Awaiting(c2)
        /\ c2 \in active_connections

\* C13: a channel that registers as executor is the executor from then on,
\* also when another executor was registered; the executor slot changes
\* only by such a registration or by being cleared; and every request is
\* written to the channel in the slot, so never to a superseded one.
C13_NewExecutorReplaces ==
    [][/\ \A ch \in UnityChannels :
            Handshake(ch, "unity") => unity_connection' = ch
       /\ unity_connection' # unity_connection =>
            \/ unity_connection' = NoChannel
            \/ Handshake(unity_connection', "unity")
       /\ \A k \in 1..Len(out') :
            out'[k].msg.kind = "request" =>
                /\ out'[k].to = unity_connection'
                /\ out'[k].to = unity_connection]_vars

\* a request has just been written to the executor while a superseded
\* executor channel is still connected
C13_Witness ==
    /\ Cardinality(ExecutorRole) = 2
    /\ \E i \in AllIds : out = <<[to |-> unity_connection, msg |-> Request(i)]>>

\* a call whose waiter is the one recorded in pending_requests under its id
\* and has not been given a response
Pending(c) ==
    /\ Awaiting(c)
    /\ future[c].kind # "response"
    /\ reqId[c] \in DOMAIN pending_requests
    /\ pending_requests[reqId[c]] = c

\* C14: dropping the executor channel fails none of its pending requests:
\* the drop changes no waiter and hands no caller anything; and while no
\* channel of executor type is connected, a pending request (its executor
\* was dropped) stays pending until its own call ends after its deadline
\* with the timeout failure.
C14_DropLeavesPending ==
    [][/\ \A ch \in UnityChannels :
            (Disconnect(ch) /\ ch = unity_connection) =>
                (UNCHANGED <<pending_requests, future, pc>> /\ out' = <<>>)
       /\ \A c \in Callers :
            (ExecutorRole = {} /\ Pending(c)) =>
                \/ Pending(c)'
                \/ /\ pc[c] = "expired"
                   /\ pc'[c] = "idle"
                   /\ out' = <<[to |-> c,
                                msg |-> Failure(Echo(c, reqId[c]), TimeoutError)]>>]_vars

\* C15: a request frame without an id gets an identifier assigned by the
\* broker, and every outcome frame the client receives for it carries that
\* identifier: the frame that answers it at once carries a (non-null) id,
\* and the frame that ends its suspended call carries the request_id.
C15_AssignedIdEchoed ==
    [][\A ch \in ClientChannels :
          /\ \A m \in ClientMessages :
                (m.id = Absent /\ ClientRequest(ch, m) /\ pc'[ch] = "idle") =>
                    (Len(out') = 1 /\ out'[1].to = ch /\ out'[1].msg.id # Null)
          /\ (Awaiting(ch) /\ msgAddr[ch] # NoAddr /\ pc'[ch] = "idle") =>
                (Len(out') = 1 /\ out'[1].to = ch /\ out'[1].msg.id = reqId[ch])]_vars

\* C16: unregistering the channel that is the current executor removes it
\* from active_connections and clears unity_connection; the slot stays
\* clear until a channel registers as executor; and every send_to_unity
\* call made while it is clear fails with the no-executor failure.
C16_UnregisterClearsSlot ==
    [][/\ \A ch \in UnityChannels :
            (Disconnect(ch) /\ ch = unity_connection) =>
                /\ ch \notin active_connections'
                /\ unity_connection' = NoChannel
       /\ (unity_connection = NoChannel /\ unity_connection' # NoChannel) =>
            Handshake(unity_connection', "unity")
       /\ \A c \in Callers :
            (/\ unity_connection = NoChannel
             /\ \/ c \in HttpCallers /\ HttpRequest(c)
                \/ /\ c \in ClientChannels
                   /\ \E m \in ClientMessages : ClientRequest(c, m)) =>
                /\ Len(out') = 1
                /\ out'[1].to = c
                /\ out'[1].msg.kind = "failure"
                /\ out'[1].msg.data = NoUnityError
                /\ pc'[c] = "idle"]_vars

\* a call has just failed for want of an executor although a channel of
\* executor type is connected: the executor was unregistered and the
\* channel it had superseded is not the executor
C16_Witness ==
    /\ unity_connection = NoChannel
    /\ ExecutorRole # {}
    /\ \E c \in Callers : \E i \in AllIds :
          out = <<[to |-> c, msg |-> Failure(i, NoUnityError)]>>

\* C17: when a response for identifier i was handled between the expiry of
\* the deadline of request i and the resumption of its caller (the future
\* holds it, or the entry for i is gone), exactly one of match and timeout
\* wins: the caller is handed the response or the "Request to Unity timed
\* out" failure, and nothing else.
C17_WindowOneWinner ==
    [][\A c \in Callers :
          (/\ pc[c] = "expired"
           /\ pc'[c] = "idle"
           /\ \/ future[c].kind = "response"
              \/ reqId[c] \notin DOMAIN pending_requests) =>
              /\ Len(out') = 1
              /\ out'[1].to = c
              /\ \/ out'[1].msg = Failure(Echo(c, reqId[c]), TimeoutError)
                 \/ /\ future[c].kind = "response"
                    /\ out'[1].msg = Deliver(c, future[c])]_vars

\* C18: pending_requests holds no entry for the waiter of a call that has
\* returned or raised, the call whose write to the executor failed
\* included: every entry is the waiter of a call still in progress.
C18_NoEntryAfterReturn ==
    \A i \in DOMAIN pending_requests :
        /\ pending_requests[i] # Stale
        /\ Awaiting(pending_requests[i])

\* C19: under fair scheduling of the event loop and of the timers, every
\* call suspended on a recorded request eventually resumes and its caller
\* is handed an outcome, whether or not the executor replies, disconnects
\* or is replaced.
C19_EventuallyResolved ==
    \A c \in Callers :
        Awaiting(c) ~> (pc[c] = "idle" /\ Len(OutcomesOf(out, c)) = 1)

\* a caller has just been handed the timeout failure while no channel of
\* executor type is connected
C19_Witness ==
    /\ ExecutorRole = {}
    /\ \E c \in Callers : \E i \in AllIds :
          out = <<[to |-> c, msg |-> Failure(i, TimeoutError)]>>

\* C20: an executor message whose identifier matches no entry of
\* pending_requests (already resolved, timed out, or never recorded) changes
\* no broker state and causes nothing to be sent to any client or HTTP
\* caller.
C20_UnknownIdNoEffect ==
    [][\A ch \in UnityChannels, m \in UnityMessages :
          (HandleUnityResponse(ch, m) /\ m.id \notin DOMAIN pending_requests) =>
              /\ pending_requests' = pending_requests
              /\ active_connections' = active_connections
              /\ unity_connection' = unity_connection
              /\ \A c \in Callers :
                    /\ future'[c] = future[c]
                    /\ pc'[c] = pc[c]
                    /\ OutcomesOf(out', c) = <<>>]_vars

\* a response found no entry for its identifier (that of a request resolved
\* before) while requests with other identifiers were recorded
C20_Witness ==
    /\ watched = "late"
    /\ WatchedId \notin DOMAIN pending_requests
    /\ DOMAIN pending_requests # {}

\* C21: the identifier generated for a message that carries none differs
\* from the identifier of every request pending at that moment, those that
\* clients supplied included: it is not the request_id of any call that is
\* suspended when it is generated.
C21_GeneratedIdFresh ==
    [][\A c \in Callers :
          (pc[c] = "idle" /\ pc'[c] = "wait" /\ msgAddr'[c] # NoAddr) =>
              \A c2 \in Callers \ {c} :
                  Awaiting(c2) => reqId[c2] # reqId'[c]]_vars

\* C22: whenever unity_connection is set, the channel it designates is a
\* member of active_connections, after any sequence of connects and
\* disconnects (executor replacement and the disconnect of the superseded
\* channel included).
C22_ExecutorIsConnected ==
    unity_connection # NoChannel => unity_connection \in active_connections

\* an executor has been replaced: two channels of executor type are
\* connected, both in active_connections, the slot designates one of them,
\* and two requests are recorded
C22_Witness ==
    /\ unity_connection # NoChannel
    /\ Cardinality(ExecutorRole) = 2
    /\ ExecutorRole \subseteq active_connections
    /\ Cardinality(DOMAIN pending_requests) = 2

\* C23: disconnecting a channel that is not the current executor (a client
\* channel, or a "unity" channel superseded by a newer executor) leaves
\* unity_connection and pending_requests unchanged.
C23_NonExecutorDisconnect ==
    [][\A ch \in Channels :
          (Disconnect(ch) /\ ch # unity_connection) =>
              UNCHANGED <<unity_connection, pending_requests>>]_vars

\* a client channel is closed and out of active_connections while the
\* executor is registered, a superseded channel of executor type is still
\* connected and a request is recorded
C23_Witness ==
    /\ unity_connection # NoChannel
    /\ Cardinality(ExecutorRole) = 2
    /\ DOMAIN pending_requests # {}
    /\ \E ch \in ClientChannels : conn[ch] = "closed" /\ pc[ch] = "idle"
    /\ active_connections \cap ClientChannels # {}

\* C24: a client channel has at most one request pending: at most one
\* entry of pending_requests is its waiter, its handler reads no frame
\* while its call is suspended, and a frame it forwards is written to the
\* executor in the step that reads it, so in the order of arrival.
C24_OneRequestPerChannel ==
    [][\A ch \in ClientChannels :
          /\ Cardinality({i \in DOMAIN pending_requests' :
                            pending_requests'[i] = ch}) <= 1
          /\ \A m \in ClientMessages :
                /\ Awaiting(ch) => ~(ClientRequest(ch, m) \/ MissingFunction(ch, m))
                /\ (ClientRequest(ch, m) /\ pc'[ch] = "wait") =>
                      /\ out' = <<[to |-> unity_connection,
                                   msg |-> Request(reqId'[ch])]>>
                      /\ m.id # Absent => reqId'[ch] = m.id
                      /\ pending_requests'[reqId'[ch]] = ch]_vars

\* both client channels have a request pending, each one entry, the second
\* just written to the executor
C24_Witness ==
    /\ \A ch \in ClientChannels :
          /\ pc[ch] = "wait"
          /\ reqId[ch] \in DOMAIN pending_requests
          /\ pending_requests[reqId[ch]] = ch
    /\ \E ch \in ClientChannels :
          out = <<[to |-> unity_connection, msg |-> Request(reqId[ch])]>>

\* C25: pending_requests never holds an entry keyed by the null
\* identifier, request frames whose id field is null included, so that an
\* executor message without an id (or with a null id) resolves no waiter.
C25_NoNullKey ==
    [][/\ Null \notin DOMAIN pending_requests'
       /\ \A ch \in UnityChannels, m \in UnityMessages :
            (HandleUnityResponse(ch, m) /\ m.id = Null) =>
                UNCHANGED <<pending_requests, future>>]_vars
====
